---------------------------- MODULE Spec2Model ----------------------------
(***************************************************************************)
(* QRCodeForge: the payload builder (URL / vCard), the generation cycle of *)
(* the combined component (handleGenerateAndOptimize), the split component *)
(* (handleGenerateBaseQr / onOptimize / runOptimization) and the server    *)
(* action handleOptimize with the optimizeQrCodeDesign flow.               *)
(*                                                                         *)
(* Texts the code inspects character by character (the URL, the contact    *)
(* fields, the vCard) are sequences of one-character strings, so that      *)
(* concatenation, line structure and the e-mail syntax are computed.       *)
(***************************************************************************)
EXTENDS Integers, Sequences, FiniteSets, Bags, TLC

-----------------------------------------------------------------------------
(* Bounds of the model *)

\* longest field text drawn for the pure-function check of generateVCard
MaxFieldLen == 1

\* most runOptimization calls of the split component in flight at once
MaxTasks == 2

-----------------------------------------------------------------------------
(* Text helpers *)

\* JavaScript's null (an absent artifact, report or logo); no text equals it,
\* a text being a sequence of single characters or of one whole token
Null == <<"null">>

NL == "\n"

\* the empty text, JavaScript's ""
Empty == <<>>

\* JavaScript's undefined (a field the object does not hold)
Undefined == <<"undefined">>

\* a mutant of Truthy: the empty string counts as a value
TruthyEmptyString(s) == s \notin {Null, Undefined}

\* JavaScript truthiness of a string-or-absent value: "", null, undefined are falsy
Truthy(s) == s \notin {Empty, Null, Undefined}

RECURSIVE Concat(_)
\* the concatenation of a sequence of texts
Concat(parts) ==
    IF parts = <<>> THEN <<>> ELSE Head(parts) \o Concat(Tail(parts))

RECURSIVE SplitLines(_)
\* the lines of a text: the pieces between line feeds (as String.split("\n"))
SplitLines(s) ==
    IF \A i \in 1..Len(s) : s[i] # NL
    THEN <<s>>
    ELSE LET k == CHOOSE i \in 1..Len(s) :
                    s[i] = NL /\ \A j \in 1..(i - 1) : s[j] # NL
         IN  <<SubSeq(s, 1, k - 1)>> \o SplitLines(SubSeq(s, k + 1, Len(s)))

\* s starts with p
StartsWith(s, p) == Len(s) >= Len(p) /\ SubSeq(s, 1, Len(p)) = p

RECURSIVE TextsUpTo(_, _)
\* every text over alphabet A of length at most n
TextsUpTo(A, n) ==
    IF n = 0 THEN {<<>>}
    ELSE LET shorter == TextsUpTo(A, n - 1)
         IN  shorter \cup {Append(t, c) : t \in shorter, c \in A}

-----------------------------------------------------------------------------
(* Payload builder: generateVCard *)

L_BEGIN   == <<"B","E","G","I","N",":","V","C","A","R","D">>
L_VERSION == <<"V","E","R","S","I","O","N",":","3",".","0">>
L_END     == <<"E","N","D",":","V","C","A","R","D">>
P_FN      == <<"F","N",":">>
P_N       == <<"N",":">>
S_N       == <<";",";",";">>
P_ORG     == <<"O","R","G",":">>
P_TITLE   == <<"T","I","T","L","E",":">>
P_TEL     == <<"T","E","L",";","T","Y","P","E","=","C","E","L","L",":">>
P_EMAIL   == <<"E","M","A","I","L",":">>

\* if (data.f) vCard += `PREFIX:${data.f}\n`
OptionalLine(prefix, value) ==
    IF Truthy(value) THEN prefix \o value \o <<NL>> ELSE <<>>

\* a mutant of generateVCard: the EMAIL line written before the TEL line
generateVCardSwapped(data) ==
    Concat(<< L_BEGIN, <<NL>>, L_VERSION, <<NL>>,
              P_FN, data.name, <<NL>>,
              P_N, data.name, S_N, <<NL>>,
              OptionalLine(P_ORG, data.org),
              OptionalLine(P_TITLE, data.title),
              OptionalLine(P_EMAIL, data.email),
              OptionalLine(P_TEL, data.phone),
              L_END >>)

generateVCard(data) ==
    Concat(<< L_BEGIN, <<NL>>, L_VERSION, <<NL>>,
              P_FN, data.name, <<NL>>,
              P_N, data.name, S_N, <<NL>>,
              OptionalLine(P_ORG, data.org),
              OptionalLine(P_TITLE, data.title),
              OptionalLine(P_TEL, data.phone),
              OptionalLine(P_EMAIL, data.email),
              L_END >>)

-----------------------------------------------------------------------------
(* Form validation: contactSchema (zod) *)


Lower == {"a","b","c","d","e","f","g","h","i","j","k","l","m",
          "n","o","p","q","r","s","t","u","v","w","x","y","z"}
Upper == {"A","B","C","D","E","F","G","H","I","J","K","L","M",
          "N","O","P","Q","R","S","T","U","V","W","X","Y","Z"}
Digit == {"0","1","2","3","4","5","6","7","8","9"}
Letter == Lower \cup Upper
Alnum == Letter \cup Digit

\* positions of character c in s
Positions(s, c) == {i \in 1..Len(s) : s[i] = c}

RECURSIVE SplitDots(_)
\* the labels of a domain: the pieces between dots
SplitDots(s) ==
    IF Positions(s, ".") = {} THEN <<s>>
    ELSE LET k == CHOOSE i \in Positions(s, ".") :
                    \A j \in Positions(s, ".") : i <= j
         IN  <<SubSeq(s, 1, k - 1)>> \o SplitDots(SubSeq(s, k + 1, Len(s)))

\* [A-Z0-9_'+\-\.]*[A-Z0-9_+-], not starting with a dot
EmailLocalOk(local) ==
    /\ Len(local) >= 1
    /\ local[1] # "."
    /\ \A i \in 1..Len(local) : local[i] \in Alnum \cup {"_", "'", "+", "-", "."}
    /\ local[Len(local)] \in Alnum \cup {"_", "+", "-"}

\* ([A-Z0-9][A-Z0-9\-]*\.)+[A-Z]{2,}
EmailDomainOk(domain) ==
    LET labels == SplitDots(domain)
        n == Len(labels)
    IN  /\ n >= 2
        /\ \A k \in 1..(n - 1) :
              /\ Len(labels[k]) >= 1
              /\ labels[k][1] \in Alnum
              /\ \A i \in 1..Len(labels[k]) : labels[k][i] \in Alnum \cup {"-"}
        /\ Len(labels[n]) >= 2
        /\ \A i \in 1..Len(labels[n]) : labels[n][i] \in Letter

\* a mutant of IsEmail: every text is accepted
IsEmailAnything(s) == TRUE

\* z.string().email(): zod's address syntax, case-insensitive
IsEmail(s) ==
    /\ Cardinality(Positions(s, "@")) = 1
    /\ \A i \in 1..(Len(s) - 1) : ~(s[i] = "." /\ s[i + 1] = ".")
    /\ LET at == CHOOSE i \in Positions(s, "@") : TRUE
       IN  /\ EmailLocalOk(SubSeq(s, 1, at - 1))
           /\ EmailDomainOk(SubSeq(s, at + 1, Len(s)))

\* a mutant of contactSchema: the name may be empty
contactSchemaNoName(data) == data.email = Undefined \/ IsEmail(data.email)

\* z.string().optional() accepts undefined and any string, "" included;
\* .email().optional() accepts undefined and syntactically valid addresses only
contactSchema(data) ==
    /\ Len(data.name) >= 1
    /\ (data.email = Undefined \/ IsEmail(data.email))

\* useForm's defaultValues
DefaultContact ==
    [name |-> Empty, phone |-> Empty, email |-> Empty, org |-> Empty, title |-> Empty]

-----------------------------------------------------------------------------
(* Encoder and optimization service boundary *)

QrWidth  == 512
QrMargin == 2
QrLevel  == "H"

\* a mutant of EncoderOptions: the error-correction level is the library's default
EncoderOptionsDefaultLevel ==
    [width |-> QrWidth, margin |-> QrMargin, errorCorrectionLevel |-> "M"]

\* the options object every QRCode.toDataURL call passes
EncoderOptions ==
    [width |-> QrWidth, margin |-> QrMargin, errorCorrectionLevel |-> QrLevel]

\* one invocation of the encoder: QRCode.toDataURL(dataToEncode, options)
EncoderCall(dataToEncode) == [payload |-> dataToEncode, options |-> EncoderOptions]

\* the data URI the encoder returns for a payload
BaseArtifact(payload) == <<"qr", payload>>

\* what the generative service answers for a base artifact
OptimizedArtifact(base) == <<"optimized", base>>
ReportFor(base) == <<"report", base>>

\* the object both components hand to handleOptimize
ClientRequest(qrCodeDataUri, style) ==
    [qrCodeDataUri    |-> qrCodeDataUri,
     logoDataUri      |-> IF Truthy(style.logo) THEN style.logo ELSE Undefined,
     shapeColor       |-> style.shapeColor,
     eyeShape         |-> style.eyeShape,
     dotShape         |-> style.dotShape,
     userInstructions |-> Undefined]

-----------------------------------------------------------------------------
(* State *)

VARIABLES
    \* which build of qr-code-generator.tsx is running
    component,
    \* the form and style state both components hold (useState / useForm)
    qrType, url, contact, logo, shapeColor, eyeShape, dotShape,
    \* what both components display
    report, isLoading,
    \* combined component: the displayed artifact, the handler's position,
    \* the values its closure holds, and the record of the current cycle
    qrCodeImage, pc, run, cyc,
    \* split component: the two artifacts, the calls in flight, and the
    \* record of the last runOptimization that ended
    baseQr, optimizedQr, tasks, lastOpt, lastGen,
    \* server action: position, flow variant, the caller's data, the request
    \* handed to optimizeQrCodeDesign, the two sub-requests (or the single
    \* prompt), what is returned and what console.error logged
    srvPc, srvVariant, srvInput, srvReq, single, diag, img, srvResult, srvLogged,
    \* pure-function check: the text generateVCard returned
    vCard,
    \* what handleDownload last handed to the browser, and the preview then
    download

formVars     == <<component, qrType, url, contact>>
styleVars    == <<logo, shapeColor, eyeShape, dotShape>>
shownVars    == <<report, isLoading>>
combinedVars == <<qrCodeImage, pc, run, cyc>>
splitVars    == <<baseQr, optimizedQr, tasks, lastOpt, lastGen>>
serverVars   == <<srvPc, srvVariant, srvInput, srvReq, single, diag, img, srvResult, srvLogged>>
pureVars     == <<vCard, download>>

vars == <<formVars, styleVars, shownVars, combinedVars, splitVars, serverVars, pureVars>>

\* useState's initial values (lines 79-89 of both components)
DefaultUrl ==
    <<"h","t","t","p","s",":","/","/","f","i","r","e","b","a","s","e",".",
      "g","o","o","g","l","e",".","c","o","m","/">>
DefaultColor == <<"#673AB7">>
DefaultShape == <<"square">>

NoStyle == [logo |-> Null, shapeColor |-> Null, eyeShape |-> Null, dotShape |-> Null]

NoRun == [payload |-> Null, baseQr |-> Null, style |-> NoStyle]

NoCycle ==
    [outcome |-> "none", kind |-> "none", prevImage |-> Null, prevReport |-> Null,
     encCalls |-> <<>>, optCalls |-> <<>>, baseQr |-> Null,
     endImage |-> Null, endReport |-> Null]

NoSub == [st |-> "none", val |-> Null]

\* handleDownload has not been called
NoDownload == [href |-> Null, preview |-> Null]

\* no runOptimization has ended / no handleGenerateBaseQr has been called
NoOpt ==
    [outcome |-> "none", baseBefore |-> Null, optBefore |-> Null,
     baseAfter |-> Null, optAfter |-> Null, reportAfter |-> Null]
NoGen == [outcome |-> "none", kind |-> "none", encCalls |-> <<>>]

InitClient ==
    /\ component \in {"combined", "split"}
    /\ qrType = "url"
    /\ url = DefaultUrl
    /\ contact = DefaultContact
    /\ logo = Null
    /\ shapeColor = DefaultColor
    /\ eyeShape = DefaultShape
    /\ dotShape = DefaultShape
    /\ report = Null
    /\ isLoading = FALSE
    /\ qrCodeImage = Null
    /\ pc = "idle"
    /\ run = NoRun
    /\ cyc = NoCycle
    /\ baseQr = Null
    /\ optimizedQr = Null
    /\ tasks = EmptyBag
    /\ lastOpt = NoOpt
    /\ lastGen = NoGen
    /\ download = NoDownload

InitServer ==
    /\ srvPc = "idle"
    /\ srvVariant = "split"
    /\ srvInput = Null
    /\ srvReq = Null
    /\ single = NoSub
    /\ diag = NoSub
    /\ img = NoSub
    /\ srvResult = Null
    /\ srvLogged = Null

-----------------------------------------------------------------------------
(* generateVCard as a pure function: every contact record over short texts *)

FieldAlphabet == {"a", ";"}

FieldTexts == TextsUpTo(FieldAlphabet, MaxFieldLen)

AnyContacts ==
    [name : FieldTexts, phone : FieldTexts, email : FieldTexts,
     org : FieldTexts, title : FieldTexts]

\* the contact record handed to generateVCard is any record of the bounded set
InitAnyContact ==
    /\ component = "combined"
    /\ qrType = "contact"
    /\ url = DefaultUrl
    /\ contact \in AnyContacts
    /\ logo = Null /\ shapeColor = DefaultColor
    /\ eyeShape = DefaultShape /\ dotShape = DefaultShape
    /\ report = Null /\ isLoading = FALSE
    /\ qrCodeImage = Null /\ pc = "idle" /\ run = NoRun /\ cyc = NoCycle
    /\ baseQr = Null /\ optimizedQr = Null
    /\ tasks = EmptyBag
    /\ lastOpt = NoOpt /\ lastGen = NoGen
    /\ InitServer
    /\ vCard = Null
    /\ download = NoDownload

\* const vCard = generateVCard(data)
ApplyGenerateVCard ==
    /\ vCard = Null
    /\ vCard' = generateVCard(contact)
    /\ UNCHANGED <<formVars, styleVars, shownVars, combinedVars, splitVars, serverVars, download>>

NextVCard == ApplyGenerateVCard

SpecVCard == InitAnyContact /\ [][NextVCard]_vars

\* the line an optional field contributes: none when the field is empty
LineIfSet(prefix, value) == IF value # Empty THEN <<prefix \o value>> ELSE <<>>

\* the lines of the fixed order of section 4.1 for a contact record
ExpectedLines(c) ==
    <<L_BEGIN, L_VERSION, P_FN \o c.name, P_N \o c.name \o S_N>>
        \o LineIfSet(P_ORG, c.org) \o LineIfSet(P_TITLE, c.title)
        \o LineIfSet(P_TEL, c.phone) \o LineIfSet(P_EMAIL, c.email)
        \o <<L_END>>

\* the number of optional fields that are set
OptionalSet(c) ==
    Cardinality({f \in {"org", "title", "phone", "email"} : c[f] # Empty})

\* C5: for every contact record (single-line field texts), generateVCard emits
\* BEGIN:VCARD, VERSION:3.0, FN, N, then ORG, TITLE, TEL;TYPE=CELL, EMAIL in
\* that order, each present exactly when its field is non-empty, then
\* END:VCARD; no line is empty and no line feed follows END:VCARD.
C5_VCardLines ==
    vCard # Null =>
        LET lines == SplitLines(vCard)
        IN  /\ lines = ExpectedLines(contact)
            /\ Len(lines) = 5 + OptionalSet(contact)
            /\ \A i \in 1..Len(lines) : lines[i] # Empty
            /\ vCard[Len(vCard)] # NL
            /\ lines[Len(lines)] = L_END

\* a card was generated for a record with some optional fields set and others not
C5_Witness ==
    /\ vCard # Null
    /\ contact.org = Empty /\ contact.title # Empty
    /\ contact.phone = Empty /\ contact.email # Empty

-----------------------------------------------------------------------------
(* Server action handleOptimize and the optimizeQrCodeDesign flows *)

InvalidInputMsg == <<"Invalid input.">>
GenericFailureMsg == <<"Failed to optimize QR code with AI. Please try again.">>
ImageFailedMsg == <<"Image generation failed.">>
SchemaFailedMsg == <<"Schema validation failed.">>

\* messages of errors the remote generative service raises
RemoteMsgs == {<<"429 quota exceeded">>, <<"400 bad request">>}

RequestFields ==
    {"qrCodeDataUri", "logoDataUri", "shapeColor", "eyeShape", "dotShape", "userInstructions"}

\* the keys actionSchema declares
ActionSchemaKeys == {"qrCodeDataUri", "logoDataUri", "shapeColor", "eyeShape", "dotShape"}

IsString(v) == v \notin {Null, Undefined}

\* actionSchema.safeParse(data).success
ActionSchemaOk(data) ==
    /\ IsString(data.qrCodeDataUri)
    /\ \A f \in ActionSchemaKeys \ {"qrCodeDataUri"} :
          data[f] = Undefined \/ IsString(data[f])

\* a mutant of ActionSchemaData: the parsed object keeps every key of the input
ActionSchemaDataPassthrough(data) == data

\* validation.data: a zod object keeps the declared keys and strips the others
ActionSchemaData(data) ==
    [f \in RequestFields |-> IF f \in ActionSchemaKeys THEN data[f] ELSE Undefined]

Pending(req) == [st |-> "pending", val |-> req]
Fulfilled(v) == [st |-> "fulfilled", val |-> v]
Rejected(msg) == [st |-> "rejected", val |-> msg]

TextPart(label, value) == [kind |-> "text", label |-> label, value |-> value]
MediaPart(value) == [kind |-> "media", label |-> "media", value |-> value]

\* a mutant of PartsIf: the part is pushed whether or not the field is set
PartsAlways(value, parts) == parts

\* if (input.f) promptParts.push(...)
PartsIf(value, parts) == IF Truthy(value) THEN parts ELSE <<>>

\* promptParts of generateImageFlow
PromptParts(input) ==
    <<TextPart("intro", Empty), MediaPart(input.qrCodeDataUri)>>
        \o PartsIf(input.logoDataUri,
                   <<TextPart("logo", Empty), MediaPart(input.logoDataUri)>>)
        \o PartsIf(input.shapeColor, <<TextPart("shapeColor", input.shapeColor)>>)
        \o PartsIf(input.eyeShape, <<TextPart("eyeShape", input.eyeShape)>>)
        \o PartsIf(input.dotShape, <<TextPart("dotShape", input.dotShape)>>)
        \o PartsIf(input.userInstructions,
                   <<TextPart("userInstructions", input.userInstructions)>>)

\* a mutant of PromiseAll: a rejected report sub-request does not fail the join
PromiseAllImageOnly(d, i) ==
    IF i.st = "rejected" THEN Rejected(i.val)
    ELSE IF i.st = "fulfilled" /\ d.st \in {"fulfilled", "rejected"}
         THEN Fulfilled([report |-> IF d.st = "fulfilled" THEN d.val
                                    ELSE [optimizationReport |-> Undefined],
                         image |-> i.val])
         ELSE Pending(Null)

\* Promise.all([diagnoseFlow(input), generateImageFlow(input)]) as it stands
\* when at most one of the two has been rejected
PromiseAll(d, i) ==
    IF d.st = "rejected" THEN Rejected(d.val)
    ELSE IF i.st = "rejected" THEN Rejected(i.val)
    ELSE IF d.st = "fulfilled" /\ i.st = "fulfilled"
         THEN Fulfilled([report |-> d.val, image |-> i.val])
         ELSE Pending(Null)

\* what optimizeQrCodeDesign settles to: the single prompt's output (lines
\* 50-54, 103-106) or the joined pair (lines 157-165)
FlowOutcome(variant, s, d, i) ==
    IF variant = "combined"
    THEN s
    ELSE LET all == PromiseAll(d, i)
         IN  IF all.st = "fulfilled"
             THEN Fulfilled([optimizationReport |-> all.val.report.optimizationReport,
                             optimizedQrCodeDataUri |-> all.val.image])
             ELSE all

\* a result object without a data key: neither an image nor a report
NoData == [optimizedQrCodeDataUri |-> Undefined, optimizationReport |-> Undefined]

\* a mutant of FailureResult: the error is thrown on to the caller, not returned
FailureRethrown(msg) == [thrown |-> msg]

\* a mutant of FailureResult: the caught error's message is passed on
FailureResultUpstream(msg) == [success |-> FALSE, data |-> NoData, error |-> msg]

\* return { success: false, error: 'Failed to optimize ...' } of the catch block
FailureResult(msg) == [success |-> FALSE, data |-> NoData, error |-> GenericFailureMsg]

\* return { success: false, error: 'Invalid input.' }
InvalidResult == [success |-> FALSE, data |-> NoData, error |-> InvalidInputMsg]

\* return { success: true, data: result }
SuccessResult(result) == [success |-> TRUE, data |-> result, error |-> Undefined]

SampleBase == BaseArtifact(<<"u">>)

\* what a caller may pass to the exported server action
SrvInputs ==
    [qrCodeDataUri    : {SampleBase, Null},
     logoDataUri      : {Undefined, Null, <<"logo">>},
     shapeColor       : {Undefined, DefaultColor},
     eyeShape         : {Undefined, DefaultShape},
     dotShape         : {Undefined, <<"dots">>},
     userInstructions : {Undefined, <<"make it blue">>}]

clientVars == <<formVars, styleVars, shownVars, combinedVars, splitVars, pureVars>>

\* handleOptimize, lines 15-21: validate, then call optimizeQrCodeDesign, which
\* issues its request(s) before its first await
Srv_Call(data) ==
    /\ srvPc = "idle"
    /\ srvInput' = data
    /\ IF ~ActionSchemaOk(data)
       THEN /\ srvResult' = InvalidResult
            /\ srvPc' = "done"
            /\ UNCHANGED <<srvReq, single, diag, img>>
       ELSE LET req == ActionSchemaData(data)
            IN  /\ srvReq' = req
                /\ srvPc' = "flow"
                /\ srvResult' = Null
                /\ IF srvVariant = "combined"
                   THEN /\ single' = Pending(req)
                        /\ UNCHANGED <<diag, img>>
                   ELSE /\ diag' = Pending(req)
                        /\ img' = Pending(PromptParts(req))
                        /\ UNCHANGED single
    /\ UNCHANGED <<srvVariant, srvLogged, clientVars>>

\* handleOptimize, lines 21-26, once optimizeQrCodeDesign has settled
Srv_Resume(s, d, i) ==
    LET out == FlowOutcome(srvVariant, s, d, i)
    IN  IF srvPc = "flow" /\ out.st = "fulfilled"
        THEN /\ srvResult' = SuccessResult(out.val)
             /\ srvPc' = "done"
             /\ UNCHANGED srvLogged
        ELSE IF srvPc = "flow" /\ out.st = "rejected"
        THEN /\ srvResult' = FailureResult(out.val)
             /\ srvLogged' = out.val
             /\ srvPc' = "done"
        ELSE UNCHANGED <<srvResult, srvPc, srvLogged>>

\* what the single prompt of the combined flow can settle to (lines 103-106)
SingleOutcomes(req) ==
    {Fulfilled([optimizedQrCodeDataUri |-> OptimizedArtifact(req.qrCodeDataUri),
                optimizationReport |-> ReportFor(req.qrCodeDataUri)]),
     Rejected(SchemaFailedMsg)} \cup {Rejected(m) : m \in RemoteMsgs}

\* what diagnoseFlow can settle to (lines 211-214)
DiagOutcomes(req) ==
    {Fulfilled([optimizationReport |-> ReportFor(req.qrCodeDataUri)]),
     Rejected(SchemaFailedMsg)} \cup {Rejected(m) : m \in RemoteMsgs}

\* what generateImageFlow can settle to (lines 249-261)
ImageOutcomes(base) ==
    {Fulfilled(OptimizedArtifact(base)), Rejected(ImageFailedMsg)}
        \cup {Rejected(m) : m \in RemoteMsgs}

Single_Settle ==
    /\ single.st = "pending"
    /\ \E o \in SingleOutcomes(single.val) :
          /\ single' = o
          /\ Srv_Resume(o, diag, img)
    /\ UNCHANGED <<srvVariant, srvInput, srvReq, diag, img, clientVars>>

Diag_Settle ==
    /\ diag.st = "pending"
    /\ \E o \in DiagOutcomes(diag.val) :
          /\ diag' = o
          /\ Srv_Resume(single, o, img)
    /\ UNCHANGED <<srvVariant, srvInput, srvReq, single, img, clientVars>>

Img_Settle ==
    /\ img.st = "pending"
    /\ \E o \in ImageOutcomes(srvReq.qrCodeDataUri) :
          /\ img' = o
          /\ Srv_Resume(single, diag, o)
    /\ UNCHANGED <<srvVariant, srvInput, srvReq, single, diag, clientVars>>

InitAction ==
    /\ InitClient
    /\ component = "split"
    /\ vCard = Null
    /\ srvPc = "idle"
    /\ srvVariant \in {"combined", "split"}
    /\ srvInput = Null /\ srvReq = Null
    /\ single = NoSub /\ diag = NoSub /\ img = NoSub
    /\ srvResult = Null /\ srvLogged = Null

NextAction ==
    \/ \E data \in SrvInputs : Srv_Call(data)
    \/ Single_Settle
    \/ Diag_Settle
    \/ Img_Settle

SpecAction == InitAction /\ [][NextAction]_vars

\* the server action has returned from a call that reached optimizeQrCodeDesign
SrvReturned == srvPc = "done" /\ srvReq # Null

\* C8: in the split optimizeQrCodeDesign both sub-requests are issued and
\* joined: the call has returned successfully exactly when both succeeded, with
\* the report of diagnoseFlow and the image of generateImageFlow; it stays
\* pending only while neither has failed; if either fails, in whatever order
\* they settle, the call fails and returns neither a report nor an image.
C8_JoinAllOrNothing ==
    (srvVariant = "split" /\ srvReq # Null) =>
        /\ diag.st # "none" /\ img.st # "none"
        /\ srvPc = "flow" =>
              /\ diag.st # "rejected" /\ img.st # "rejected"
              /\ ~(diag.st = "fulfilled" /\ img.st = "fulfilled")
        /\ srvPc = "done" =>
              /\ srvResult.success <=> (diag.st = "fulfilled" /\ img.st = "fulfilled")
              /\ srvResult.success =>
                    /\ srvResult.data.optimizationReport = diag.val.optimizationReport
                    /\ srvResult.data.optimizedQrCodeDataUri = img.val
              /\ ~srvResult.success => srvResult.data = NoData

\* the report sub-request succeeded, the image sub-request failed, the call failed
C8_Witness ==
    /\ srvVariant = "split" /\ SrvReturned
    /\ diag.st = "fulfilled" /\ img.st = "rejected"
    /\ ~srvResult.success

\* C9 as claimed: when the optimization service call fails, the failure
\* handleOptimize reports carries the upstream error's message.
C9_CarriesUpstreamMessage ==
    (SrvReturned /\ ~srvResult.success) => srvResult.error = srvLogged

\* C9 as amended: when the optimization service call fails, handleOptimize
\* reports the fixed text "Failed to optimize QR code with AI. Please try
\* again."; the upstream error's message is only logged, not returned.
C9_GenericMessage ==
    (SrvReturned /\ ~srvResult.success) =>
        /\ srvResult.error = GenericFailureMsg
        /\ srvLogged \in RemoteMsgs \cup {ImageFailedMsg, SchemaFailedMsg}
        /\ srvResult.error # srvLogged

\* the image sub-request raised "Image generation failed." and the call failed
C9_Witness ==
    /\ SrvReturned /\ ~srvResult.success
    /\ srvLogged = ImageFailedMsg

\* C10 as claimed: every request field the caller passes to handleOptimize
\* reaches optimizeQrCodeDesign with the same value, userInstructions included.
C10_FieldsForwarded ==
    srvReq # Null => \A f \in RequestFields : srvReq[f] = srvInput[f]

-----------------------------------------------------------------------------
(* The user's edits of the form and of the style, in either component *)

UrlSamples     == {Empty, DefaultUrl, <<" ", "a", " ">>}
NameSamples    == {Empty, <<"J", "o">>}
EmailSamples   == {Empty, <<"n","o","t","-","a","n","-","e","m","a","i","l">>,
                   <<"j", "@", "x", ".", "i", "o">>}
PhoneSamples   == {Empty, <<"+", "1", " ", "2">>}
\* organization and title stay as the form's defaults here; generateVCard is
\* checked over all five fields as a pure function (SpecVCard)
OrgSamples     == {Empty}
TitleSamples   == {Empty}

FieldSamples(f) ==
    CASE f = "name"  -> NameSamples
      [] f = "email" -> EmailSamples
      [] f = "phone" -> PhoneSamples
      [] f = "org"   -> OrgSamples
      [] f = "title" -> TitleSamples

LogoSamples  == {Null, <<"logo">>}

\* the eye and dot selects stay at "square" here
StyleSamples(f) ==
    CASE f = "shapeColor" -> {DefaultColor, <<"#000000">>}
      [] f = "eyeShape"   -> {DefaultShape}
      [] f = "dotShape"   -> {DefaultShape}

\* no call of a handler of the component is in flight.  The handlers read the
\* form and the style through their closure only, so an edit commutes with the
\* steps of a call in flight; edits are taken between calls.
Quiet ==
    /\ pc = "idle"
    /\ tasks = EmptyBag

\* the records of the calls that ended describe the form as it stood; an edit
\* starts afresh
ForgetCalls == cyc' = NoCycle /\ lastOpt' = NoOpt /\ lastGen' = NoGen

editFrame == <<component, qrType, report, isLoading, qrCodeImage, pc, run,
               baseQr, optimizedQr, tasks, serverVars, pureVars>>

\* onChange={(e) => setUrl(e.target.value)}
SetUrl(u) ==
    /\ Quiet /\ u # url
    /\ url' = u
    /\ ForgetCalls
    /\ UNCHANGED <<contact, styleVars, editFrame>>

\* <Input {...field} />: the form field f takes the text v
SetField(f, v) ==
    /\ Quiet /\ v # contact[f]
    /\ contact' = [contact EXCEPT ![f] = v]
    /\ ForgetCalls
    /\ UNCHANGED <<url, styleVars, editFrame>>

\* handleLogoUpload: reader.onload sets the logo
SetLogo(v) ==
    /\ Quiet /\ v # logo /\ v # Null
    /\ logo' = v
    /\ ForgetCalls
    /\ UNCHANGED <<url, contact, shapeColor, eyeShape, dotShape, editFrame>>

\* setShapeColor / setEyeShape / setDotShape: the style field f takes the value v
SetStyle(f, v) ==
    /\ Quiet
    /\ v # (CASE f = "shapeColor" -> shapeColor
              [] f = "eyeShape" -> eyeShape
              [] f = "dotShape" -> dotShape)
    /\ shapeColor' = IF f = "shapeColor" THEN v ELSE shapeColor
    /\ eyeShape' = IF f = "eyeShape" THEN v ELSE eyeShape
    /\ dotShape' = IF f = "dotShape" THEN v ELSE dotShape
    /\ ForgetCalls
    /\ UNCHANGED <<url, contact, logo, editFrame>>

Edit ==
    \/ \E u \in UrlSamples : SetUrl(u)
    \/ \E f \in {"name", "email", "phone", "org", "title"} :
          \E v \in FieldSamples(f) : SetField(f, v)
    \/ \E v \in LogoSamples : SetLogo(v)
    \/ \E f \in {"shapeColor", "eyeShape", "dotShape"} :
          \E v \in StyleSamples(f) : SetStyle(f, v)

\* the style values a handler's closure holds
CurrentStyle ==
    [logo |-> logo, shapeColor |-> shapeColor, eyeShape |-> eyeShape, dotShape |-> dotShape]

-----------------------------------------------------------------------------
(* Payload builder as both components apply it *)

RECURSIVE TrimLeft(_)
TrimLeft(s) == IF s # <<>> /\ Head(s) = " " THEN TrimLeft(Tail(s)) ELSE s

RECURSIVE TrimRight(_)
TrimRight(s) ==
    IF s # <<>> /\ s[Len(s)] = " " THEN TrimRight(SubSeq(s, 1, Len(s) - 1)) ELSE s

\* a mutant of UrlPayload: the URL text is trimmed before it is encoded
UrlPayloadTrimmed(u) == TrimLeft(TrimRight(u))

\* dataToEncode = url
UrlPayload(u) == u

\* if (!url) { ...; return }   /   if (!(await contactForm.trigger())) return
InputValid(kind, u, c) ==
    IF kind = "url" THEN Truthy(u) ELSE contactSchema(c)

\* dataToEncode after the if / else if over qrType
DataToEncode(kind, u, c) ==
    IF kind = "url" THEN UrlPayload(u) ELSE generateVCard(c)

\* every result handleOptimize can return to a client for a request
HandleOptimizeResults(req) ==
    IF ~ActionSchemaOk(req)
    THEN {InvalidResult}
    ELSE {SuccessResult([optimizedQrCodeDataUri |-> OptimizedArtifact(req.qrCodeDataUri),
                         optimizationReport |-> ReportFor(req.qrCodeDataUri)])}
         \cup {FailureResult(m) : m \in RemoteMsgs \cup {ImageFailedMsg, SchemaFailedMsg}}

-----------------------------------------------------------------------------
(* Combined component: handleGenerateAndOptimize *)

combinedFrame == <<formVars, styleVars, splitVars, serverVars, pureVars>>

\* a mutant of ClearedAtStart: the displayed value is left as it was
KeptAtStart(shown) == shown

\* setReport(null); setQrCodeImage(null) at the start of a cycle
ClearedAtStart(shown) == Null

\* lines 108-111: the click on "Generate" (disabled while isLoading)
HGO_Click ==
    /\ component = "combined"
    /\ pc = "idle" /\ ~isLoading
    /\ isLoading' = TRUE
    /\ report' = ClearedAtStart(report)
    /\ qrCodeImage' = ClearedAtStart(qrCodeImage)
    /\ pc' = "validating"
    /\ run' = [payload |-> Null, baseQr |-> Null, style |-> CurrentStyle]
    /\ cyc' = [NoCycle EXCEPT !.outcome = "running", !.kind = qrType,
                              !.prevImage = qrCodeImage, !.prevReport = report]
    /\ UNCHANGED combinedFrame

\* a mutant of CycleEnds: an exit path that leaves isLoading as it is
CycleEndsStillLoading(outcome, image, rep) ==
    /\ isLoading' = isLoading
    /\ qrCodeImage' = image
    /\ report' = rep
    /\ pc' = "idle"
    /\ run' = NoRun
    /\ cyc' = [cyc EXCEPT !.outcome = outcome, !.endImage = image, !.endReport = rep]

\* the end of a cycle: finally { setIsLoading(false) } or the early returns
CycleEnds(outcome, image, rep) ==
    /\ isLoading' = FALSE
    /\ qrCodeImage' = image
    /\ report' = rep
    /\ pc' = "idle"
    /\ run' = NoRun
    /\ cyc' = [cyc EXCEPT !.outcome = outcome, !.endImage = image, !.endReport = rep]

\* lines 113-140: validation, the payload, and the call of the encoder.  No
\* user event comes between the click and this step: the URL branch is
\* synchronous and contactForm.trigger() resolves within the click's task.
HGO_Validate ==
    /\ pc = "validating"
    /\ IF ~InputValid(cyc.kind, url, contact)
       THEN CycleEnds("invalid", qrCodeImage, report)
       ELSE LET dataToEncode == DataToEncode(cyc.kind, url, contact)
            IN  IF ~Truthy(dataToEncode)
                THEN CycleEnds("empty", qrCodeImage, report)
                ELSE /\ pc' = "encoding"
                     /\ run' = [run EXCEPT !.payload = dataToEncode]
                     /\ cyc' = [cyc EXCEPT !.encCalls = Append(@, EncoderCall(dataToEncode))]
                     /\ UNCHANGED <<isLoading, qrCodeImage, report>>
    /\ UNCHANGED combinedFrame

\* lines 136-150: QRCode.toDataURL resolves, handleOptimize is called
HGO_EncoderReturns ==
    /\ pc = "encoding"
    /\ LET base == BaseArtifact(run.payload)
           req == ClientRequest(base, run.style)
       IN  /\ run' = [run EXCEPT !.baseQr = base]
           /\ cyc' = [cyc EXCEPT !.baseQr = base, !.optCalls = Append(@, req)]
    /\ pc' = "optimizing"
    /\ UNCHANGED <<isLoading, qrCodeImage, report, combinedFrame>>

\* lines 160-168: QRCode.toDataURL rejects (the payload exceeds the capacity)
HGO_EncoderThrows ==
    /\ pc = "encoding"
    /\ CycleEnds("encfail", Null, Null)
    /\ UNCHANGED combinedFrame

\* lines 152-168: handleOptimize has returned.  On a failure the else branch
\* sets the base artifact and throws; the catch block then sets null.
HGO_OptimizeReturns ==
    /\ pc = "optimizing"
    /\ \E result \in HandleOptimizeResults(cyc.optCalls[1]) :
          IF result.success /\ result.data # NoData
          THEN CycleEnds("ok", result.data.optimizedQrCodeDataUri,
                         result.data.optimizationReport)
          ELSE LET inElse == run.baseQr
                   inCatch == Null
               IN  CycleEnds("optfail", inCatch, Null)
    /\ UNCHANGED combinedFrame

\* lines 160-168: the call of the server action itself rejects
HGO_OptimizeThrows ==
    /\ pc = "optimizing"
    /\ CycleEnds("optthrow", Null, Null)
    /\ UNCHANGED combinedFrame

\* Tabs onValueChange (lines 209-213), at any time but within the click's task
TabsChangeCombined ==
    /\ component = "combined"
    /\ pc # "validating"
    /\ \E v \in {"url", "contact"} :
          /\ v # qrType
          /\ qrType' = v
    /\ qrCodeImage' = Null
    /\ report' = Null
    /\ cyc' = IF pc = "idle" THEN NoCycle ELSE cyc
    /\ UNCHANGED <<component, url, contact, styleVars, isLoading, pc, run,
                   splitVars, serverVars, pureVars>>

NextCombined ==
    \/ HGO_Click
    \/ HGO_Validate
    \/ HGO_EncoderReturns
    \/ HGO_EncoderThrows
    \/ HGO_OptimizeReturns
    \/ HGO_OptimizeThrows
    \/ TabsChangeCombined

-----------------------------------------------------------------------------
(* Split component: handleGenerateBaseQr, onOptimize, runOptimization *)

splitFrame == <<formVars, styleVars, combinedVars, serverVars, pureVars>>

\* the calls in flight are a bag: two equal calls are two calls
InFlight == BagCardinality(tasks)
Started(t) == tasks (+) SetToBag({t})
Ended(t) == tasks (-) SetToBag({t})
Becomes(t, u) == (tasks (-) SetToBag({t})) (+) SetToBag({u})

\* gen is how the handleGenerateBaseQr that onOptimize awaited ended: "ok",
\* "invalid" or "encfail", and "none" where onOptimize awaited none
Generating(payload, then) ==
    [kind |-> "generating", payload |-> payload, base |-> Null,
     thenOptimize |-> then, style |-> CurrentStyle, gen |-> "none"]
TimerOf(style, gen) ==
    [kind |-> "timer", payload |-> Null, base |-> Null,
     thenOptimize |-> TRUE, style |-> style, gen |-> gen]
Optimizing(base, style, gen) ==
    [kind |-> "optimizing", payload |-> Null, base |-> base,
     thenOptimize |-> FALSE, style |-> style, gen |-> gen]

\* lastOpt and lastGen record what the last step did, and nothing older
lastStepOnly == lastOpt' = NoOpt /\ lastGen' = NoGen

\* const currentQrImage = optimizedQr || baseQr
CurrentQrImage(opt, base) == IF Truthy(opt) THEN opt ELSE base

\* handleGenerateBaseQr, lines 109-128: validation, the payload and the call
\* of the encoder; then says whether onOptimize awaits the call
GenerateBaseQrCall(then) ==
    IF InputValid(qrType, url, contact) /\ Truthy(DataToEncode(qrType, url, contact))
    THEN LET dataToEncode == DataToEncode(qrType, url, contact)
         IN  /\ tasks' = Started(Generating(dataToEncode, then))
             /\ lastGen' = [outcome |-> "encoding", kind |-> qrType,
                            encCalls |-> <<EncoderCall(dataToEncode)>>]
    ELSE /\ tasks' = IF then THEN Started(TimerOf(CurrentStyle, "invalid")) ELSE tasks
         /\ lastGen' = [outcome |-> "invalid", kind |-> qrType, encCalls |-> <<>>]

\* the "Generate QR Code" button, never disabled
GB_Click ==
    /\ component = "split"
    /\ InFlight < MaxTasks
    /\ GenerateBaseQrCall(FALSE)
    /\ lastOpt' = NoOpt
    /\ UNCHANGED <<baseQr, optimizedQr, report, isLoading, splitFrame>>

\* a mutant of GB_EncoderReturns: the report is not reset with the optimized artifact
GB_EncoderReturnsKeepsReport ==
    \E t \in BagToSet(tasks) :
        /\ t.kind = "generating"
        /\ baseQr' = BaseArtifact(t.payload)
        /\ optimizedQr' = Null
        /\ report' = report
        /\ tasks' = IF t.thenOptimize THEN Becomes(t, TimerOf(t.style, "ok")) ELSE Ended(t)
        /\ lastStepOnly
        /\ UNCHANGED <<isLoading, splitFrame>>

\* lines 129-131: the encoder resolved
GB_EncoderReturns ==
    \E t \in BagToSet(tasks) :
        /\ t.kind = "generating"
        /\ baseQr' = BaseArtifact(t.payload)
        /\ optimizedQr' = Null
        /\ report' = Null
        /\ tasks' = IF t.thenOptimize THEN Becomes(t, TimerOf(t.style, "ok")) ELSE Ended(t)
        /\ lastStepOnly
        /\ UNCHANGED <<isLoading, splitFrame>>

\* lines 133-136: the encoder rejected; the error is caught and reported
GB_EncoderThrows ==
    \E t \in BagToSet(tasks) :
        /\ t.kind = "generating"
        /\ tasks' = IF t.thenOptimize THEN Becomes(t, TimerOf(t.style, "encfail")) ELSE Ended(t)
        /\ lastStepOnly
        /\ UNCHANGED <<baseQr, optimizedQr, report, isLoading, splitFrame>>

\* the "Optimize with AI" button (disabled while isLoading), lines 152-170
OO_Click ==
    /\ component = "split"
    /\ ~isLoading
    /\ InFlight < MaxTasks
    /\ IF ~Truthy(baseQr)
       THEN /\ GenerateBaseQrCall(TRUE)
            /\ UNCHANGED <<isLoading, report>>
       ELSE /\ isLoading' = TRUE
            /\ report' = Null
            /\ tasks' = Started(Optimizing(baseQr, CurrentStyle, "none"))
            /\ lastGen' = NoGen
    /\ lastOpt' = NoOpt
    /\ UNCHANGED <<baseQr, optimizedQr, splitFrame>>

\* lines 156-166: the 100 ms timer of onOptimize fires
Timer_Fires ==
    \E t \in BagToSet(tasks) :
        /\ t.kind = "timer"
        /\ IF ~Truthy(baseQr)
           THEN /\ tasks' = Ended(t)
                /\ UNCHANGED <<isLoading, report>>
           ELSE /\ isLoading' = TRUE
                /\ report' = Null
                /\ tasks' = Becomes(t, Optimizing(baseQr, t.style, t.gen))
        /\ lastStepOnly
        /\ UNCHANGED <<baseQr, optimizedQr, splitFrame>>

\* a mutant of OptimizedAfterFailure: the catch block leaves optimizedQr as it is
OptimizedKeptAfterFailure(opt) == opt

\* setOptimizedQr(null) of runOptimization's catch block
OptimizedAfterFailure(opt) == Null

\* runOptimization ends: finally { setIsLoading(false) }
OptimizationEnds(t, outcome, opt, rep) ==
    /\ optimizedQr' = opt
    /\ report' = rep
    /\ isLoading' = FALSE
    /\ tasks' = Ended(t)
    /\ lastGen' = NoGen
    /\ UNCHANGED <<baseQr, splitFrame>>
    /\ lastOpt' = [outcome |-> outcome, baseBefore |-> baseQr, optBefore |-> optimizedQr,
                   baseAfter |-> baseQr', optAfter |-> opt, reportAfter |-> rep]

\* lines 184-199: handleOptimize has returned
RO_Returns ==
    \E t \in BagToSet(tasks) :
        /\ t.kind = "optimizing"
        /\ \E result \in HandleOptimizeResults(ClientRequest(t.base, t.style)) :
              IF result.success /\ result.data # NoData
              THEN OptimizationEnds(t, "ok", result.data.optimizedQrCodeDataUri,
                                    result.data.optimizationReport)
              ELSE OptimizationEnds(t, "fail", OptimizedAfterFailure(optimizedQr), Null)

\* lines 191-199: the call of the server action itself rejects
RO_Throws ==
    \E t \in BagToSet(tasks) :
        /\ t.kind = "optimizing"
        /\ OptimizationEnds(t, "throw", OptimizedAfterFailure(optimizedQr), Null)

\* Tabs onValueChange (lines 230-235)
TabsChangeSplit ==
    /\ component = "split"
    /\ \E v \in {"url", "contact"} :
          /\ v # qrType
          /\ qrType' = v
    /\ baseQr' = Null
    /\ optimizedQr' = Null
    /\ report' = Null
    /\ lastStepOnly
    /\ UNCHANGED <<component, url, contact, styleVars, isLoading, tasks,
                   combinedVars, serverVars, pureVars>>

NextSplit ==
    \/ GB_Click
    \/ GB_EncoderReturns
    \/ GB_EncoderThrows
    \/ OO_Click
    \/ Timer_Fires
    \/ RO_Returns
    \/ RO_Throws
    \/ TabsChangeSplit

-----------------------------------------------------------------------------
(* The client: either component, with the user's edits *)

InitClientSpec ==
    /\ InitClient
    /\ InitServer
    /\ vCard = Null

NextClient ==
    \/ Edit
    \/ NextCombined
    \/ NextSplit

SpecClient == InitClientSpec /\ [][NextClient]_vars

-----------------------------------------------------------------------------
(* Claims about the combined component *)

\* the current cycle of handleGenerateAndOptimize is past its validation; the
\* form still holds the values the cycle read
PastValidation == cyc.outcome # "none" /\ pc # "validating"

\* the cycle has ended
CycleOver == cyc.outcome \notin {"none", "running"}

\* C1 as claimed: when validation and encoding succeed but handleOptimize
\* reports failure, the cycle ends displaying the base artifact the encoder
\* produced, with no report; a cycle whose input was valid and encoded never
\* ends with no artifact.
C1_FallbackToBase ==
    /\ cyc.outcome = "optfail" =>
          cyc.endImage = cyc.baseQr /\ cyc.endReport = Null
    /\ cyc.outcome \in {"ok", "optfail"} => cyc.endImage # Null

\* C3 as claimed: when the cycle aborts in validation or because the encoder
\* throws, the artifact and report displayed before the cycle are unchanged.
C3_PriorKept ==
    cyc.outcome \in {"invalid", "encfail"} =>
        cyc.endImage = cyc.prevImage /\ cyc.endReport = cyc.prevReport

\* C3 as amended: when the cycle aborts in validation or because the encoder
\* throws, no artifact and no report are displayed after it ends, whatever was
\* displayed before: the cycle clears both when it starts.
C3_ClearedOnAbort ==
    cyc.outcome \in {"invalid", "encfail"} =>
        /\ cyc.endImage = Null /\ cyc.endReport = Null
        /\ qrCodeImage = Null /\ report = Null

\* a cycle aborted while an artifact and its report were displayed
C3_Witness ==
    /\ cyc.outcome \in {"invalid", "encfail"}
    /\ cyc.prevImage # Null /\ cyc.prevReport # Null

\* the contact form holds a name and nothing else
NameOnly ==
    /\ contact.name # Empty
    /\ contact.phone = Empty /\ contact.email = Empty
    /\ contact.org = Empty /\ contact.title = Empty

\* C4 as claimed: for a contact with a name and every other field left at the
\* form's default "", generation passes validation and the encoder receives
\* exactly the lines BEGIN:VCARD, VERSION:3.0, FN:<name>, N:<name>;;;, END:VCARD.
NameOnlyLines ==
    <<L_BEGIN, L_VERSION, P_FN \o contact.name, P_N \o contact.name \o S_N, L_END>>

C4_NameOnlyEncoded ==
    /\ (cyc.kind = "contact" /\ PastValidation /\ NameOnly) =>
          /\ cyc.outcome # "invalid"
          /\ Len(cyc.encCalls) = 1
          /\ SplitLines(cyc.encCalls[1].payload) = NameOnlyLines
    /\ (lastGen.kind = "contact" /\ NameOnly) =>
          /\ lastGen.outcome # "invalid"
          /\ Len(lastGen.encCalls) = 1
          /\ SplitLines(lastGen.encCalls[1].payload) = NameOnlyLines

\* C7: when the kind is contact and the name is empty, or the email is present
\* but not a valid address, the cycle fails in validation: neither the encoder
\* nor the optimization service is invoked and the cycle produces no artifact.
\* This is so in handleGenerateAndOptimize and in handleGenerateBaseQr.
ContactRefused ==
    \/ contact.name = Empty
    \/ contact.email # Empty /\ ~IsEmail(contact.email)

C7_InvalidContactStops ==
    /\ (cyc.kind = "contact" /\ PastValidation /\ ContactRefused) =>
          /\ cyc.outcome = "invalid"
          /\ cyc.encCalls = <<>> /\ cyc.optCalls = <<>>
          /\ cyc.baseQr = Null /\ cyc.endImage = Null
          /\ qrCodeImage = Null /\ ~isLoading
    /\ (lastGen.kind = "contact" /\ ContactRefused) =>
          /\ lastGen.outcome = "invalid"
          /\ lastGen.encCalls = <<>>

\* a cycle was refused for a contact with a name and a malformed email
C7_Witness ==
    /\ cyc.kind = "contact" /\ cyc.outcome = "invalid"
    /\ contact.name # Empty
    /\ contact.email # Empty /\ Positions(contact.email, "@") = {}


\* C6: when the kind is url and the URL text is not empty, the encoder is
\* called once, with exactly the URL text as its payload; when the URL text is
\* empty the cycle fails in validation and the encoder is not called.  This is
\* so in handleGenerateAndOptimize and in handleGenerateBaseQr.
C6_UrlVerbatim ==
    /\ (cyc.kind = "url" /\ PastValidation) =>
          IF url = Empty
          THEN cyc.outcome = "invalid" /\ cyc.encCalls = <<>> /\ cyc.optCalls = <<>>
          ELSE Len(cyc.encCalls) = 1 /\ cyc.encCalls[1].payload = url
    /\ lastGen.kind = "url" =>
          IF url = Empty
          THEN lastGen.outcome = "invalid" /\ lastGen.encCalls = <<>>
          ELSE Len(lastGen.encCalls) = 1 /\ lastGen.encCalls[1].payload = url

\* a URL text with blanks around it has been encoded, blanks included
C6_Witness ==
    /\ url = <<" ", "a", " ">>
    /\ cyc.kind = "url"
    /\ cyc.baseQr = BaseArtifact(<<" ", "a", " ">>)

-----------------------------------------------------------------------------
(* Claims about the split component *)

\* C2: when runOptimization's call of handleOptimize reports failure or
\* throws, baseQr is what it was before, optimizedQr and report are absent
\* afterwards, and the current artifact (optimizedQr if present, else baseQr)
\* is the base artifact.
C2_FailureKeepsBase ==
    lastOpt.outcome \in {"fail", "throw"} =>
        /\ lastOpt.baseAfter = lastOpt.baseBefore
        /\ baseQr = lastOpt.baseBefore
        /\ lastOpt.optAfter = Null /\ optimizedQr = Null
        /\ lastOpt.reportAfter = Null /\ report = Null
        /\ CurrentQrImage(optimizedQr, baseQr) = lastOpt.baseBefore

\* an optimization failed while an optimized artifact of an earlier one was
\* displayed over a base artifact
C2_Witness ==
    /\ lastOpt.outcome = "fail"
    /\ lastOpt.optBefore # Null
    /\ lastOpt.baseBefore # Null

-----------------------------------------------------------------------------
(* generateImageFlow's request as a function of its input *)

\* inputs OptimizeQrCodeDesignInputSchema admits: every optional field absent,
\* the empty string, or a text
FlowInputs ==
    {[f \in RequestFields |-> r[f]] :
        r \in [qrCodeDataUri    : {SampleBase},
               logoDataUri      : {Undefined, Empty, <<"logo">>},
               shapeColor       : {Undefined, Empty, DefaultColor},
               eyeShape         : {Undefined, DefaultShape},
               dotShape         : {Undefined, <<"dots">>},
               userInstructions : {Undefined, Empty, <<"make it blue">>}]}

\* optimizeQrCodeDesign is about to be called with any admitted input, or the
\* component is about to call handleOptimize with its logo set or unset
InitPrompt ==
    /\ component = "split"
    /\ qrType = "url" /\ url = DefaultUrl /\ contact = DefaultContact
    /\ logo \in LogoSamples
    /\ shapeColor = DefaultColor /\ eyeShape = DefaultShape /\ dotShape = DefaultShape
    /\ report = Null /\ isLoading = FALSE
    /\ qrCodeImage = Null /\ pc = "idle" /\ run = NoRun /\ cyc = NoCycle
    /\ baseQr = Null /\ optimizedQr = Null
    /\ tasks = EmptyBag
    /\ lastOpt = NoOpt /\ lastGen = NoGen
    /\ vCard = Null /\ download = NoDownload
    /\ srvPc = "idle" /\ srvVariant = "split"
    /\ srvInput = Null
    /\ srvReq \in FlowInputs \cup {Null}
    /\ single = NoSub /\ diag = NoSub /\ img = NoSub
    /\ srvResult = Null /\ srvLogged = Null

\* the component's call: handleOptimize({qrCodeDataUri, logoDataUri: logo ||
\* undefined, ...}), validated and handed to optimizeQrCodeDesign
BuildClientRequest ==
    /\ srvReq = Null
    /\ srvInput' = ClientRequest(SampleBase, CurrentStyle)
    /\ srvReq' = ActionSchemaData(srvInput')
    /\ srvPc' = "flow"
    /\ UNCHANGED <<srvVariant, single, diag, img, srvResult, srvLogged, clientVars>>

\* generateImageFlow builds promptParts and calls ai.generate
ApplyPromptParts ==
    /\ srvReq # Null
    /\ img = NoSub
    /\ img' = Pending(PromptParts(srvReq))
    /\ UNCHANGED <<srvPc, srvVariant, srvInput, srvReq, single, diag, srvResult,
                   srvLogged, clientVars>>

NextPrompt ==
    \/ BuildClientRequest
    \/ ApplyPromptParts

SpecPrompt == InitPrompt /\ [][NextPrompt]_vars

\* the positions of the parts of a request that carry the field f
PartsOf(parts, f) == {k \in DOMAIN parts : parts[k].label = f}

\* the media parts after the base artifact's
LaterMedia(parts) == {k \in 3..Len(parts) : parts[k].kind = "media"}

\* C11: the request generateImageFlow builds always contains the base
\* artifact, and contains a part for the logo, the shape color, the eye shape,
\* the dot shape and the user instructions exactly when that input field is
\* present and not empty; an absent field contributes no part, never a null or
\* empty placeholder; and the client passes an unset logo as absent.
C11_PartsIffPresent ==
    /\ img.st = "pending" =>
          LET parts == img.val
              input == srvReq
          IN  /\ parts[2] = MediaPart(input.qrCodeDataUri)
              /\ \A f \in {"shapeColor", "eyeShape", "dotShape", "userInstructions"} :
                    IF Truthy(input[f])
                    THEN \E k \in DOMAIN parts :
                            PartsOf(parts, f) = {k} /\ parts[k].value = input[f]
                    ELSE PartsOf(parts, f) = {}
              /\ IF Truthy(input.logoDataUri)
                 THEN \E k \in DOMAIN parts :
                         /\ PartsOf(parts, "logo") = {k}
                         /\ LaterMedia(parts) = {k + 1}
                         /\ parts[k + 1].value = input.logoDataUri
                 ELSE PartsOf(parts, "logo") = {} /\ LaterMedia(parts) = {}
              /\ \A k \in DOMAIN parts :
                    /\ parts[k].value \notin {Null, Undefined}
                    /\ parts[k].label \notin {"intro", "logo"} => parts[k].value # Empty
    /\ (srvPc = "flow" /\ logo = Null) =>
          /\ srvInput.logoDataUri = Undefined
          /\ img.st = "pending" => PartsOf(img.val, "logo") = {}

\* a request was built for an input with user instructions and an empty logo
\* text: the base artifact's two parts and the instructions, nothing else
C11_Witness ==
    /\ img.st = "pending"
    /\ srvReq.logoDataUri = Empty
    /\ srvReq.userInstructions = <<"make it blue">>
    /\ Len(img.val) = 3

-----------------------------------------------------------------------------
(* handleOptimize when the remote service may never respond *)

\* The caller's call is taken.  A sub-request settles only when the remote
\* service responds, which it need not do: neither handleOptimize nor
\* optimizeQrCodeDesign nor ai.generate is given a timeout or an abort signal,
\* so no step of the code is enabled while the requests are pending.
SpecActionLive == SpecAction /\ WF_vars(\E data \in SrvInputs : Srv_Call(data))

\* C12 as claimed: a call of handleOptimize that has reached
\* optimizeQrCodeDesign eventually returns, also when the remote service never
\* responds (a timeout makes it fail); the caller's isLoading can then be reset.
C12_EventuallyReturns == (srvPc = "flow") ~> (srvPc = "done")

-----------------------------------------------------------------------------
(* Claims about the encoder's invocations, in both components *)

\* every invocation of the encoder the records hold: those of the current
\* cycle of handleGenerateAndOptimize and that of the last handleGenerateBaseQr
EncoderCalls ==
    {cyc.encCalls[k] : k \in DOMAIN cyc.encCalls}
        \cup {lastGen.encCalls[k] : k \in DOMAIN lastGen.encCalls}

\* C13: every invocation of the encoder, in both components and for both
\* payload kinds, uses width 512, margin 2 and error-correction level H.
C13_FixedParameters ==
    \A call \in EncoderCalls :
        /\ call.options.width = 512
        /\ call.options.margin = 2
        /\ call.options.errorCorrectionLevel = "H"
        /\ DOMAIN call.options = {"width", "margin", "errorCorrectionLevel"}

\* handleGenerateBaseQr has invoked the encoder for a contact
C13_Witness ==
    /\ component = "split"
    /\ lastGen.kind = "contact"
    /\ Len(lastGen.encCalls) = 1

\* C14: the payload passed to the encoder is never the empty string, for any
\* kind and any form contents; the encoding in flight in the split component
\* carries a payload that is not empty either.
C14_PayloadNeverEmpty ==
    /\ \A call \in EncoderCalls : call.payload # Empty /\ Len(call.payload) > 0
    /\ \A t \in BagToSet(tasks) : t.kind = "generating" => t.payload # Empty
    /\ pc = "encoding" => run.payload # Empty

\* the empty URL was refused without a call, and a contact with nothing but a
\* name and an email was encoded by handleGenerateAndOptimize
C14_Witness ==
    /\ component = "combined"
    /\ url = Empty
    /\ cyc.kind = "contact"
    /\ contact.phone = Empty
    /\ Len(cyc.encCalls) = 1

-----------------------------------------------------------------------------
(* handleDownload and the preview, in both components *)

\* a || b
Or(a, b) == IF Truthy(a) THEN a ELSE b

\* the src of the preview's <Image>: qrCodeImage / currentQrImage
Preview ==
    IF component = "combined" THEN qrCodeImage ELSE CurrentQrImage(optimizedQr, baseQr)

\* a mutant of DownloadHref: the split component offers the base artifact first
DownloadHrefBaseFirst ==
    IF component = "combined" THEN Or(qrCodeImage, Empty)
    ELSE Or(baseQr, Or(optimizedQr, Empty))

\* link.href = qrCodeImage || ""  /  link.href = optimizedQr || baseQr || ""
DownloadHref ==
    IF component = "combined" THEN Or(qrCodeImage, Empty)
    ELSE Or(optimizedQr, Or(baseQr, Empty))

PageUrl == <<"page">>

\* reading link.href: a data URI reads back as itself, and "" resolves against
\* the document's URL
LinkHref(v) == IF v = Empty THEN PageUrl ELSE v

\* the Download button: disabled={!qrCodeImage || isLoading} /
\* disabled={!currentQrImage || isLoading}
DownloadEnabled == Truthy(Preview) /\ ~isLoading

\* handleDownload: if (!link.href) return; otherwise link.click()
HandleDownload ==
    /\ DownloadEnabled
    /\ LET href == LinkHref(DownloadHref)
       IN  /\ Truthy(href)
           /\ download' = [href |-> href, preview |-> Preview]
           /\ download' # download
    /\ UNCHANGED <<formVars, styleVars, shownVars, combinedVars, splitVars,
                   serverVars, vCard>>

\* the form stays as the component shows it first: the default URL and an
\* empty contact form
NextDownload ==
    \/ NextCombined
    \/ NextSplit
    \/ HandleDownload

SpecDownload == InitClientSpec /\ [][NextDownload]_vars

\* C15: the artifact handleDownload offers is the artifact the preview shows,
\* optimizedQr if present and otherwise baseQr (qrCodeImage in the combined
\* component); when no artifact exists nothing is downloaded.
C15_DownloadIsPreview ==
    /\ download # NoDownload =>
          /\ download.href = download.preview
          /\ Truthy(download.preview)
    /\ DownloadEnabled => LinkHref(DownloadHref) = Preview
    /\ ~Truthy(Preview) => ~ENABLED HandleDownload
    /\ component = "split" =>
          Preview = IF optimizedQr # Null THEN optimizedQr ELSE baseQr

\* the split component's optimized artifact was downloaded
C15_Witness ==
    /\ component = "split"
    /\ baseQr # Null
    /\ download.href = optimizedQr
    /\ optimizedQr = OptimizedArtifact(baseQr)

-----------------------------------------------------------------------------
(* Claims about overlapping calls *)

\* C16 as claimed: in the split component, once handleGenerateBaseQr has
\* installed a base artifact, the optimized artifact and the report displayed
\* with it are derived from that base artifact and from no earlier one, also
\* when an optimization started before the generation completes after it.
C16_NoStaleOptimized ==
    (component = "split" /\ baseQr # Null) =>
        /\ optimizedQr # Null => optimizedQr = OptimizedArtifact(baseQr)
        /\ report # Null => report = ReportFor(baseQr)

\* C17 as claimed: the stages run in the order validate, encode, optimize.
\* The optimization service is invoked only with a base artifact a successful
\* encoder call returned, and never in a cycle whose validation or encoding
\* failed: not by handleGenerateAndOptimize, and not by the timer of an
\* onOptimize whose handleGenerateBaseQr failed.
C17_StagesInOrder ==
    /\ cyc.optCalls # <<>> =>
          /\ Len(cyc.encCalls) = 1
          /\ cyc.optCalls[1].qrCodeDataUri = BaseArtifact(cyc.encCalls[1].payload)
    /\ cyc.outcome \in {"invalid", "empty", "encfail"} => cyc.optCalls = <<>>
    /\ \A t \in BagToSet(tasks) :
          t.kind = "optimizing" =>
              /\ t.base # Null /\ t.base[1] = "qr"
              /\ t.gen \in {"none", "ok"}

\* the calls of handleOptimize the split component has in flight
OptimizationsInFlight ==
    BagCardinality([t \in {x \in BagToSet(tasks) : x.kind = "optimizing"} |-> tasks[t]])

\* C18 as claimed: in the split component at most one optimization request is
\* in flight at any time, and isLoading is true whenever one is in flight,
\* whatever the sequence of Optimize clicks.
C18_OneOptimization ==
    component = "split" =>
        /\ OptimizationsInFlight <= 1
        /\ OptimizationsInFlight > 0 => isLoading

\* the kind a payload was built for: a vCard text begins with BEGIN:VCARD
PayloadKind(payload) ==
    IF SplitLines(payload)[1] = L_BEGIN THEN "contact" ELSE "url"

\* the kind of the payload a base artifact, an optimized artifact or a report
\* goes back to
ArtifactKind(x) ==
    IF x[1] = "qr" THEN PayloadKind(x[2]) ELSE PayloadKind(x[2][2])

\* C19 as claimed: after the user switches the code type, no artifact or
\* report produced for the previous type is displayed: whatever is displayed
\* was produced for the type now selected, also when a generation or an
\* optimization started before the switch completes after it.
C19_NothingOfOtherKind ==
    \A x \in {qrCodeImage, baseQr, optimizedQr, report} :
        x # Null => ArtifactKind(x) = qrType

-----------------------------------------------------------------------------
(* Termination of handleGenerateAndOptimize *)

\* The steps of a run are taken: validation is the handler's own code, and
\* the encoder and the optimization call each return or throw.
SpecClientLive ==
    /\ SpecClient
    /\ WF_vars(HGO_Validate)
    /\ WF_vars(HGO_EncoderReturns \/ HGO_EncoderThrows)
    /\ WF_vars(HGO_OptimizeReturns \/ HGO_OptimizeThrows)

\* C20: every run of handleGenerateAndOptimize in which the encoder and the
\* optimization call each return or throw ends with isLoading false, on every
\* exit path; isLoading is true from the start of the run until then.
C20_LoadingUntilEnd ==
    /\ [](component = "combined" =>
            /\ pc # "idle" => isLoading /\ cyc.outcome = "running"
            /\ pc = "idle" => ~isLoading /\ cyc.outcome # "running")
    /\ (pc # "idle") ~> (pc = "idle" /\ ~isLoading /\ CycleOver)

\* a run ended because the encoder threw, with isLoading reset
C20_Witness ==
    /\ component = "combined"
    /\ cyc.outcome = "encfail"
    /\ pc = "idle"
    /\ ~isLoading

-----------------------------------------------------------------------------
(* Claims about what handleOptimize returns and what the split component shows *)

\* the caller's data does not satisfy actionSchema: the base artifact is
\* missing or an optional field is null
InputMalformed ==
    \/ srvInput.qrCodeDataUri \in {Null, Undefined}
    \/ \E f \in {"logoDataUri", "shapeColor", "eyeShape", "dotShape"} : srvInput[f] = Null

\* no request was made to the optimization service
ServiceNotInvoked == single = NoSub /\ diag = NoSub /\ img = NoSub

\* C21: handleOptimize never throws.  Whatever the input and whatever the
\* optimization service does, what it returns is {success: true, data} or
\* {success: false, error} with an error text that is not empty; when the
\* input fails schema validation it returns the failure without invoking the
\* optimization service.
C21_AlwaysAResult ==
    srvPc = "done" =>
        /\ DOMAIN srvResult = {"success", "data", "error"}
        /\ srvResult.success \in BOOLEAN
        /\ srvResult.success =>
              /\ srvResult.data # NoData
              /\ srvResult.error = Undefined
        /\ ~srvResult.success =>
              /\ srvResult.data = NoData
              /\ srvResult.error \notin {Undefined, Null, Empty, <<"">>}
        /\ InputMalformed =>
              /\ ~srvResult.success
              /\ srvResult.error = InvalidInputMsg
              /\ ServiceNotInvoked
        /\ ~InputMalformed => ~ServiceNotInvoked

\* a call without a base artifact returned 'Invalid input.' and made no request
C21_Witness ==
    /\ srvPc = "done"
    /\ srvInput.qrCodeDataUri = Null
    /\ srvResult = InvalidResult
    /\ ServiceNotInvoked

\* C22: in every reachable state of the split component a report is present
\* only if an optimized artifact is present, for any interleaving of
\* generation, optimization, type switching and their completions.
C22_ReportNeedsOptimized ==
    component = "split" => (report # Null => optimizedQr # Null)

\* a report and its optimized artifact are displayed while another call of a
\* handler is in flight
C22_Witness ==
    /\ component = "split"
    /\ report # Null /\ optimizedQr # Null
    /\ tasks # EmptyBag

=============================================================================
